---- MODULE Spec2Model ----
(***************************************************************************)
(* A model of the MQTT v5 client session engine of netdata/paho.golang    *)
(* (src/paho/client.go): the connect-once handshake, the writer, reader   *)
(* and pinger goroutines, the asynchronous close sequence, and the public *)
(* operations that enqueue packets and wait for their responses.          *)
(*                                                                         *)
(* Go pointers are modelled as sequences of length at most one: <<>> is   *)
(* nil and <<v>> points to v.  An unbuffered channel send is a joint step *)
(* of the sender and the receiver; a buffered channel of capacity one is  *)
(* a sequence of length at most one; a channel that is only ever closed   *)
(* is the number of times close() was applied to it.                      *)
(***************************************************************************)
EXTENDS Integers, Sequences, FiniteSets, TLC

\* ---------------------------------------------------------------- bounds
NConnect == 2        \* goroutines that call Connect
NClose == 2          \* goroutines that call Close
NShutdown == 1       \* goroutines that call Shutdown
NOps == 2            \* goroutines that call Publish on the flow-control gates
NCallers == 1        \* goroutines that call Subscribe, Publish, Authenticate, ...
MaxRecv == 2         \* packets the server sends before it goes quiet
Second == 4          \* instants in a second: the resolution of the clock
MaxTime == 16        \* the pinger's timer does not fire after this instant
MaxLate == 0         \* how late after its due time the timer may fire
MaxResetDelay == 1   \* how long after a fire the pinger may re-arm the timer

\* ------------------------------------------------------ program constants
DefaultKeepAlive == 60
DefaultReceiveMaximum == 65535
FailureReason == 128

ConnectCallers == {<<"Connect", i>> : i \in 1..NConnect}
CloseCallers == {<<"Close", i>> : i \in 1..NClose}
ShutdownCallers == {<<"Shutdown", i>> : i \in 1..NShutdown}
OpCallers == {<<"Op", i>> : i \in 1..NOps}
Procs == ConnectCallers \cup CloseCallers \cup ShutdownCallers \cup OpCallers

VARIABLES
  once,            \* connectOnce: "idle", "running", "done", "panicked"
  bodyRuns,        \* how many times the function given to connectOnce.Do by Connect ran
  ca, cerr,        \* c.ca (pointer), c.cerr ("nil" or the error)
  caCtx,           \* c.caCtx: <<>> or <<mailbox>>, the mailbox a sequence of CONNACKs
  keepalive,       \* the keepalive handed to the pinger, in seconds
  serverProps, clientProps,
  serverInflight, clientInflight,   \* <<>> or <<[size, cur]>>
  closed,          \* c.closed
  closer,          \* the goroutines started by close(): a sequence of their positions
  exit, done,      \* c.exit, c.done: number of close() applied
  connCloses,      \* number of c.Conn.Close() calls
  onCloseCalls,    \* number of c.OnClose() calls
  wpc, w,          \* writer: position and the packet taken from writeq
  writerDone,
  sent,            \* the packets WriteTo wrote to the stream
  rpc, recv,       \* reader: position and the packet read
  rctx,            \* reader: the context (cpCtx, raCtx) it is about to deliver to
  readerDone,
  nrecv,           \* number of packets read so far
  ppc,             \* pinger: position
  pingerDone,
  pong,            \* c.pong: number of buffered tokens (capacity 1)
  lastPing, now, timerDue,   \* pinger locals; Nil is the zero time / a timer not armed
  pc, res,         \* each caller's position and what its call returned
  op,              \* each caller's operation and its arguments
  mids,            \* c.MIDs.index: packet id -> <<>> or <<caller owning the CPContext>>
  mbox,            \* each caller's CPContext.Return mailbox (capacity 1)
  raCtx,           \* c.raCtx: <<>> or <<caller>>
  permit,          \* each caller's permit of the server-inflight gate: "none", "held", "released"
  afterClose,      \* whether the caller's method was called after a Close() had returned
  routing,         \* Router.Route goroutines running, per QoS of their PUBLISH
  subscriptions,   \* StandardRouter.subscriptions: pattern -> number of handlers
  aliases,         \* StandardRouter.aliases: topic alias -> topic
  tasks            \* the Route goroutines the reader started, in the order of their start

onceVars == <<once, bodyRuns>>
connVars == <<ca, cerr, caCtx, keepalive, serverProps, clientProps, serverInflight, clientInflight>>
closeVars == <<closed, closer>>
closerVars == <<exit, done, connCloses, onCloseCalls>>
writerVars == <<wpc, w, writerDone, sent>>
readerVars == <<rpc, recv, rctx, readerDone, nrecv>>
pingerVars == <<ppc, pingerDone, lastPing, now, timerDue>>
callVars == <<pc, res>>
opVars == <<op, mids, mbox, raCtx, permit, afterClose>>
routerVars == <<subscriptions, aliases, tasks>>
vars == <<onceVars, connVars, closeVars, closerVars, writerVars, readerVars,
          pingerVars, pong, callVars, opVars, routing, routerVars>>

\* ---------------------------------------------------------------- values
Nil == <<>>
Ptr(v) == <<v>>
\* What a call returned: the value, the error ("nil" for none), and whether it
\* returned because the context its caller passed had ended.
NoResult == [val |-> Nil, err |-> "none", ctx |-> FALSE]
Result(v, e) == [val |-> v, err |-> e, ctx |-> FALSE]
ByCtx(e) == [val |-> Nil, err |-> e, ctx |-> TRUE]

\* A control packet.  props is a pointer to the packet's properties.
Pkt(t, id, rc, qos, props) == [type |-> t, id |-> id, rc |-> rc, qos |-> qos, props |-> props]
NoPkt == Pkt("none", 0, 0, 0, Nil)
Packet(t) == Pkt(t, 0, 0, 0, Nil)
\* The properties of CONNECT and CONNACK that the session reads.
Props(rm, ka) ==
  [ReceiveMaximum |-> rm, ServerKeepAlive |-> ka, MaximumQoS |-> Nil,
   TopicAliasMaximum |-> Nil, RetainAvailable |-> TRUE,
   WildcardSubAvailable |-> TRUE, SubIDAvailable |-> TRUE, SharedSubAvailable |-> TRUE]

NewServerProps ==
  [ReceiveMaximum |-> DefaultReceiveMaximum, MaximumQoS |-> 2, TopicAliasMaximum |-> 0,
   RetainAvailable |-> TRUE, WildcardSubAvailable |-> TRUE, SubIDAvailable |-> TRUE,
   SharedSubAvailable |-> TRUE]
NewClientProps == [ReceiveMaximum |-> DefaultReceiveMaximum]

\* ---------------------------------------------------------------- NewClient
Init ==
  /\ once = "idle" /\ bodyRuns = 0
  /\ ca = Nil /\ cerr = "nil" /\ caCtx = Nil /\ keepalive = 0
  /\ serverProps = NewServerProps /\ clientProps = NewClientProps
  /\ serverInflight = Nil /\ clientInflight = Nil
  /\ closed = FALSE /\ closer = <<>>
  /\ exit = 0 /\ done = 0 /\ connCloses = 0 /\ onCloseCalls = 0
  /\ wpc = "notstarted" /\ w = [src |-> <<"none", 0>>, type |-> "none", id |-> 0, rc |-> 0] /\ writerDone = FALSE /\ sent = {}
  /\ rpc = "notstarted" /\ recv = NoPkt /\ rctx = Nil /\ readerDone = FALSE /\ nrecv = 0
  /\ ppc = "notstarted" /\ pingerDone = FALSE /\ pong = 0
  /\ lastPing = Nil /\ now = 0 /\ timerDue = Nil
  /\ pc = [p \in Procs |-> "idle"]
  /\ res = [p \in Procs |-> NoResult]
  /\ op = [p \in Procs |-> NoPkt]
  /\ mids = <<>>
  /\ mbox = [p \in Procs |-> <<>>]
  /\ raCtx = Nil
  /\ permit = [p \in Procs |-> "none"]
  /\ afterClose = [p \in Procs |-> FALSE]
  /\ routing = [q \in 0..2 |-> 0]
  /\ subscriptions = <<>>
  /\ aliases = <<>>
  /\ tasks = <<>>

\* ---------------------------------------------------------------- close()
\* close(): under c.mu, the first call sets closed and starts the close goroutine.
closeUnguarded ==
  /\ closed' = TRUE
  /\ closer' = Append(closer, "waitConnected")
close ==
  IF closed
    THEN UNCHANGED closeVars
    ELSE /\ closed' = TRUE
         /\ closer' = Append(closer, "waitConnected")

\* fail(e) traces the error and calls close().
fail == close

\* ---------------------------------------------------------------- write()
\* write(ctx, w): the three cases of its select.  Enqueue is the rendezvous
\* with the writer's receive from writeq.
Enqueue(p) ==
  /\ wpc = "select"
  /\ wpc' = "writing"
  /\ w' = p
  /\ UNCHANGED <<writerDone, sent>>

ExitClosed == exit > 0
DoneClosed == done > 0

CtxErrors == {"DeadlineExceeded", "Canceled"}

\* The packet handed to write(): who wrote it, its type, packet id and reason code.
Out(src, t, id, rc) == [src |-> src, type |-> t, id |-> id, rc |-> rc]
NoOut == Out(<<"none", 0>>, "none", 0, 0)
Reader == <<"reader", 0>>
Pinger == <<"pinger", 0>>

\* The CONNECT packet given to Connect: its KeepAlive and (a pointer to) its properties.
ConnectPkt(ka, props) == [KeepAlive |-> ka, props |-> props]

Returned(p, r) ==
  /\ pc' = [pc EXCEPT ![p] = "returned"]
  /\ res' = [res EXCEPT ![p] = r]

\* ---------------------------------------------------------------- Connect
\* Connect is entered; connectOnce.Do has not been reached or blocks on its mutex.
ConnectCall(c) ==
  /\ pc[c] = "idle"
  /\ pc' = [pc EXCEPT ![c] = "Do"]
  /\ UNCHANGED <<onceVars, connVars, closeVars, closerVars, writerVars, readerVars,
                 pingerVars, pong, res, opVars, routing, routerVars>>

\* sync.Once: Do runs its function in the first caller only.
DoRunsAlways == TRUE
DoRuns == once = "idle"

\* connectOnce.Do runs the body in the first caller: keepalive and client
\* properties from the CONNECT packet, then go c.writer(); go c.reader().
ConnectBegin(c, cp) ==
  /\ pc[c] = "Do"
  /\ DoRuns
  /\ once' = "running"
  /\ bodyRuns' = bodyRuns + 1
  /\ keepalive' = IF cp.KeepAlive = 0 THEN DefaultKeepAlive ELSE cp.KeepAlive
  /\ clientProps' =
       IF cp.props # Nil /\ cp.props[1].ReceiveMaximum # Nil
         THEN [clientProps EXCEPT !.ReceiveMaximum = cp.props[1].ReceiveMaximum[1]]
         ELSE clientProps
  /\ wpc' = "select"
  /\ rpc' = "read"
  /\ pc' = [pc EXCEPT ![c] = "caCtx"]
  /\ UNCHANGED <<ca, cerr, caCtx, serverProps, serverInflight, clientInflight,
                 closeVars, closerVars, w, writerDone, sent, recv, rctx, readerDone, nrecv,
                 pingerVars, pong, res, opVars, routing, routerVars>>

\* c.caCtx = &caContext{connCtx, make(chan *packets.Connack, 1)}: set after
\* the reader was started, which reads it without synchronisation.
ConnectCaCtx(c) ==
  /\ pc[c] = "caCtx"
  /\ caCtx' = Ptr(<<>>)
  /\ pc' = [pc EXCEPT ![c] = "write"]
  /\ UNCHANGED <<onceVars, ca, cerr, keepalive, serverProps, clientProps,
                 serverInflight, clientInflight, closeVars, closerVars, writerVars,
                 readerVars, pingerVars, pong, res, opVars, routing, routerVars>>

\* The body ends with c.cerr set: the deferred function calls close(), Do
\* returns and Connect returns (c.ca, c.cerr).
ConnectFailed(c, cav, e) ==
  /\ cerr' = e
  /\ close
  /\ once' = "done"
  /\ Returned(c, Result(cav, e))

\* c.write(ctx, ccp) in the body.
ConnectWrite(c) ==
  /\ pc[c] = "write"
  /\ \/ /\ Enqueue(Out(c, "CONNECT", 0, 0))
        /\ pc' = [pc EXCEPT ![c] = "wait"]
        /\ UNCHANGED <<once, cerr, closeVars, res>>
     \/ /\ ExitClosed
        /\ ConnectFailed(c, ca, "ErrClosed")
        /\ UNCHANGED writerVars
     \/ /\ \E e \in CtxErrors : ConnectFailed(c, ca, e)
        /\ UNCHANGED writerVars
  /\ UNCHANGED <<bodyRuns, ca, caCtx, keepalive, serverProps, clientProps,
                 serverInflight, clientInflight, closerVars, readerVars, pingerVars,
                 pong, opVars, routing, routerVars>>

\* The server properties after a successful CONNACK.
ServerPropsFrom(cap, old) ==
  IF cap.props = Nil
    THEN old
    ELSE LET pr == cap.props[1] IN
      [ReceiveMaximum |->
         IF pr.ReceiveMaximum # Nil THEN pr.ReceiveMaximum[1] ELSE old.ReceiveMaximum,
       MaximumQoS |-> IF pr.MaximumQoS # Nil THEN pr.MaximumQoS[1] ELSE old.MaximumQoS,
       TopicAliasMaximum |->
         IF pr.TopicAliasMaximum # Nil THEN pr.TopicAliasMaximum[1] ELSE old.TopicAliasMaximum,
       RetainAvailable |-> pr.RetainAvailable,
       WildcardSubAvailable |-> pr.WildcardSubAvailable,
       SubIDAvailable |-> pr.SubIDAvailable,
       SharedSubAvailable |-> pr.SharedSubAvailable]

\* time.Duration(keepalive) * time.Second
Interval(ka) == ka * Second

KeepAliveFrom(cap, old) ==
  IF cap.props # Nil /\ cap.props[1].ServerKeepAlive # Nil
    THEN cap.props[1].ServerKeepAlive[1]
    ELSE old

\* semaphore.NewWeighted(n)
NewWeighted(n) == Ptr([size |-> n, cur |-> 0])

\* The server-inflight gate is sized by the server's ReceiveMaximum, the
\* client-inflight gate by the client's.
ServerGateOfClient(sp, cp) == NewWeighted(cp.ReceiveMaximum)
ServerGate(sp, cp) == NewWeighted(sp.ReceiveMaximum)
ClientGate(sp, cp) == NewWeighted(cp.ReceiveMaximum)

\* The select on connCtx.Done() and c.caCtx.Return, and the rest of the body.
ConnectWait(c) ==
  /\ pc[c] = "wait"
  /\ \/ /\ \E e \in CtxErrors : ConnectFailed(c, ca, e)
        /\ UNCHANGED <<ca, caCtx, keepalive, serverProps, serverInflight,
                       clientInflight, pingerVars>>
     \/ /\ caCtx[1] # <<>>
        /\ LET cap == Head(caCtx[1]) IN
             /\ caCtx' = Ptr(Tail(caCtx[1]))
             /\ ca' = Ptr(cap)
             /\ IF cap.rc >= FailureReason
                  THEN /\ ConnectFailed(c, Ptr(cap), "failed to connect to server")
                       /\ UNCHANGED <<keepalive, serverProps, serverInflight,
                                      clientInflight, pingerVars>>
                  ELSE /\ keepalive' = KeepAliveFrom(cap, keepalive)
                       /\ serverProps' = ServerPropsFrom(cap, serverProps)
                       /\ serverInflight' = ServerGate(serverProps', clientProps)
                       /\ clientInflight' = ClientGate(serverProps', clientProps)
                       \* go c.pinger(keepalive): timer = time.NewTimer(d),
                       \* due at once when d is 0
                       /\ ppc' = "select"
                       /\ timerDue' = Ptr(now + Interval(keepalive'))
                       /\ once' = "done"
                       /\ Returned(c, Result(Ptr(cap), cerr))
                       /\ UNCHANGED <<cerr, closeVars, pingerDone, lastPing, now>>
  /\ UNCHANGED <<bodyRuns, clientProps, closerVars, writerVars, readerVars, pong,
                 opVars, routing, routerVars>>

\* connectOnce.Do in a caller that finds the body finished: the memoised pair.
ConnectMemo(c) ==
  /\ pc[c] = "Do"
  /\ once = "done"
  /\ Returned(c, Result(ca, cerr))
  /\ UNCHANGED <<onceVars, connVars, closeVars, closerVars, writerVars, readerVars,
                 pingerVars, pong, opVars, routing, routerVars>>

\* waitConnected() in a method called before any Connect: its function runs
\* inside connectOnce.Do and it panics, which aborts the process.
MethodBeforeConnect(p) ==
  /\ pc[p] = "idle"
  /\ once = "idle"
  /\ once' = "panicked"
  /\ pc' = [pc EXCEPT ![p] = "panicked"]
  /\ UNCHANGED <<bodyRuns, connVars, closeVars, closerVars, writerVars, readerVars,
                 pingerVars, pong, res, opVars, routing, routerVars>>

\* waitConnected() returns once connectOnce.Do has run to its end.
Connected == once = "done"

IsAlive == ~closed

\* ---------------------------------------------------------------- writer
\* The writer's select takes the exit case.
WriterExit ==
  /\ wpc = "select"
  /\ ExitClosed
  /\ wpc' = "stopped"
  /\ writerDone' = TRUE
  /\ UNCHANGED <<onceVars, connVars, closeVars, closerVars, w, sent, readerVars,
                 pingerVars, pong, callVars, opVars, routing, routerVars>>

\* w.WriteTo(c.Conn) succeeds.
WriterWrite ==
  /\ wpc = "writing"
  /\ sent' = sent \cup {w}
  /\ w' = NoOut
  /\ wpc' = "select"
  /\ UNCHANGED <<onceVars, connVars, closeVars, closerVars, writerDone, readerVars,
                 pingerVars, pong, callVars, opVars, routing, routerVars>>

\* w.WriteTo(c.Conn) returns an error: fail, return, close(c.writerDone).
WriterError ==
  /\ wpc = "writing"
  /\ fail
  /\ w' = NoOut
  /\ wpc' = "stopped"
  /\ writerDone' = TRUE
  /\ UNCHANGED <<onceVars, connVars, closerVars, sent, readerVars, pingerVars, pong,
                 callVars, opVars, routing, routerVars>>

\* ---------------------------------------------------------------- close goroutine
\* c.waitConnected(); close(c.exit)
CloserExit(i) ==
  /\ closer[i] = "waitConnected"
  /\ Connected
  /\ exit' = exit + 1
  /\ closer' = [closer EXCEPT ![i] = "waitWriter"]
  /\ UNCHANGED <<onceVars, connVars, closed, done, connCloses, onCloseCalls,
                 writerVars, readerVars, pingerVars, pong, callVars, opVars, routing, routerVars>>

\* <-c.writerDone
CloserWriter(i) ==
  /\ closer[i] = "waitWriter"
  /\ writerDone
  /\ closer' = [closer EXCEPT ![i] = "waitPinger"]
  /\ UNCHANGED <<onceVars, connVars, closed, closerVars, writerVars, readerVars,
                 pingerVars, pong, callVars, opVars, routing, routerVars>>

\* <-c.pingerDone; c.Conn.Close()
CloserPinger(i) ==
  /\ closer[i] = "waitPinger"
  /\ pingerDone
  /\ connCloses' = connCloses + 1
  /\ closer' = [closer EXCEPT ![i] = "waitReader"]
  /\ UNCHANGED <<onceVars, connVars, closed, exit, done, onCloseCalls, writerVars,
                 readerVars, pingerVars, pong, callVars, opVars, routing, routerVars>>

\* <-c.readerDone; close(c.done)
CloserReader(i) ==
  /\ closer[i] = "waitReader"
  /\ readerDone
  /\ done' = done + 1
  /\ closer' = [closer EXCEPT ![i] = "onClose"]
  /\ UNCHANGED <<onceVars, connVars, closed, exit, connCloses, onCloseCalls,
                 writerVars, readerVars, pingerVars, pong, callVars, opVars, routing, routerVars>>

\* The session is configured with an OnClose hook.
OnCloseSet == TRUE

\* if c.cerr == nil && c.OnClose != nil { c.OnClose() }
CallsOnCloseOnFailure == cerr # "nil" /\ OnCloseSet
CallsOnClose == cerr = "nil" /\ OnCloseSet

CloserOnClose(i) ==
  /\ closer[i] = "onClose"
  /\ onCloseCalls' = IF CallsOnClose THEN onCloseCalls + 1 ELSE onCloseCalls
  /\ closer' = [closer EXCEPT ![i] = "finished"]
  /\ UNCHANGED <<onceVars, connVars, closed, exit, done, connCloses, writerVars,
                 readerVars, pingerVars, pong, callVars, opVars, routing, routerVars>>

\* ---------------------------------------------------------------- Close, Shutdown
\* Close(): c.waitConnected(); c.close(); then it waits for c.done.
CloseCall(k) ==
  /\ pc[k] = "idle"
  /\ Connected
  /\ close
  /\ pc' = [pc EXCEPT ![k] = "waitDone"]
  /\ UNCHANGED <<onceVars, connVars, closerVars, writerVars, readerVars, pingerVars,
                 pong, res, opVars, routing, routerVars>>

\* <-c.done in Close()
CloseWaitsForExit == ExitClosed
CloseWaitsFor == DoneClosed

CloseReturn(k) ==
  /\ pc[k] = "waitDone"
  /\ CloseWaitsFor
  /\ pc' = [pc EXCEPT ![k] = "returned"]
  /\ UNCHANGED <<onceVars, connVars, closeVars, closerVars, writerVars, readerVars,
                 pingerVars, pong, res, opVars, routing, routerVars>>

\* Shutdown(ctx): c.waitConnected(); c.write(ctx, DISCONNECT); on an error it
\* goes on to Close() at once.
\* The write of DISCONNECT failed: Shutdown calls Close().
ShutdownGivesUp(s) ==
  /\ UNCHANGED closeVars
  /\ pc' = [pc EXCEPT ![s] = "returned"]
ShutdownCloses(s) ==
  /\ close
  /\ pc' = [pc EXCEPT ![s] = "waitDone"]

ShutdownWrite(s) ==
  /\ pc[s] = "idle"
  /\ Connected
  /\ \/ /\ Enqueue(Out(s, "DISCONNECT", 0, 0))
        /\ pc' = [pc EXCEPT ![s] = "wait"]
        /\ UNCHANGED <<closeVars, res>>
     \/ /\ ExitClosed
        /\ ShutdownCloses(s)
        /\ res' = [res EXCEPT ![s] = Result(Nil, "ErrClosed")]
        /\ UNCHANGED writerVars
     \/ /\ \E e \in CtxErrors : res' = [res EXCEPT ![s] = ByCtx(e)]
        /\ ShutdownCloses(s)
        /\ UNCHANGED writerVars
  /\ UNCHANGED <<onceVars, connVars, closerVars, readerVars, pingerVars, pong,
                 opVars, routing, routerVars>>

\* select { case <-c.readerDone: case <-time.After(c.ShutdownTimeout): }; c.Close()
ShutdownWait(s) ==
  /\ pc[s] = "wait"
  /\ \/ /\ readerDone
        /\ res' = [res EXCEPT ![s] = Result(Nil, "readerDone")]
     \/ res' = [res EXCEPT ![s] = Result(Nil, "ShutdownTimeout")]
  /\ close
  /\ pc' = [pc EXCEPT ![s] = "waitDone"]
  /\ UNCHANGED <<onceVars, connVars, closerVars, writerVars, readerVars, pingerVars,
                 pong, opVars, routing, routerVars>>

\* ---------------------------------------------------------------- router
\* Strings are sequences of characters.
Slash == "/"
Share == <<"$", "s", "h", "a", "r", "e">>
Hash == <<"#">>
Plus == <<"+">>

\* strings.HasPrefix(s, prefix)
HasPrefix(s, prefix) ==
  Len(s) >= Len(prefix) /\ SubSeq(s, 1, Len(prefix)) = prefix

\* strings.Split(s, "/"): the substrings between the slashes, <<s>> when
\* there is none.
RECURSIVE Split(_)
Split(s) ==
  IF \A i \in 1..Len(s) : s[i] # Slash
    THEN <<s>>
    ELSE LET i == CHOOSE k \in 1..Len(s) :
                    s[k] = Slash /\ \A j \in 1..(k - 1) : s[j] # Slash
         IN <<SubSeq(s, 1, i - 1)>> \o Split(SubSeq(s, i + 1, Len(s)))

routeSplit(route) ==
  IF Len(route) = 0 THEN <<>>
  ELSE IF HasPrefix(route, Share) THEN Tail(Split(route))
  ELSE Split(route)

topicSplit(topic) ==
  IF Len(topic) = 0 THEN <<>> ELSE Split(topic)

RECURSIVE matchDeep(_, _)
matchDeep(route, topic) ==
  IF Len(route) = 0 THEN Len(topic) = 0
  ELSE IF Len(topic) = 0 THEN route[1] = Hash
  ELSE IF route[1] = Hash THEN TRUE
  ELSE IF route[1] = Plus \/ route[1] = topic[1]
    THEN matchDeep(Tail(route), Tail(topic))
  ELSE FALSE

routeIncludesTopic(route, topic) == matchDeep(routeSplit(route), topicSplit(topic))

matchExact(route, topic) == route = topic
match(route, topic) == route = topic \/ routeIncludesTopic(route, topic)

\* An inbound PUBLISH carries its topic and its topic alias in its props.
Pub(topic, alias) == Ptr([Topic |-> topic, TopicAlias |-> alias])
PubTopic(p) == IF p.props = Nil THEN <<>> ELSE p.props[1].Topic
PubAlias(p) == IF p.props = Nil THEN Nil ELSE p.props[1].TopicAlias

\* go c.Router.Route(pb): the goroutine, before its first step.  topic is
\* the local variable of Route, invoked the number of calls of the handlers
\* of each pattern.
NewTask(p) ==
  [pb |-> [Topic |-> PubTopic(p), TopicAlias |-> PubAlias(p), qos |-> p.qos],
   pc |-> "RLock", topic |-> <<>>, invoked |-> <<>>]

\* The Route goroutines that hold the router's read lock.
Routing == {k \in DOMAIN tasks : tasks[k].pc \in {"alias", "lookup", "range", "handlers"}}

\* RegisterHandler(topic, h): under the write lock, append h to the
\* handlers of topic.
RegisterHandler(topic) ==
  /\ Routing = {}
  /\ subscriptions' =
       [r \in DOMAIN subscriptions \cup {topic} |->
          IF r \in DOMAIN subscriptions
            THEN (IF r = topic THEN subscriptions[r] + 1 ELSE subscriptions[r])
            ELSE 1]
  /\ UNCHANGED <<onceVars, connVars, closeVars, closerVars, writerVars, readerVars,
                 pingerVars, pong, callVars, opVars, routing, aliases, tasks>>

\* UnregisterHandler(topic): under the write lock, delete(r.subscriptions, topic).
UnregisterHandler(topic) ==
  /\ Routing = {}
  /\ subscriptions' = [r \in DOMAIN subscriptions \ {topic} |-> subscriptions[r]]
  /\ UNCHANGED <<onceVars, connVars, closeVars, closerVars, writerVars, readerVars,
                 pingerVars, pong, callVars, opVars, routing, aliases, tasks>>

RouteStep(k, t) ==
  /\ tasks' = [tasks EXCEPT ![k] = t]
  /\ UNCHANGED <<onceVars, connVars, closeVars, closerVars, writerVars, readerVars,
                 pingerVars, pong, callVars, opVars, subscriptions>>

\* r.Route(pb, ack) called on the router itself, not by a reader: the
\* call, before its first step.
RouteCall(menu, budget) ==
  /\ Len(tasks) < budget
  /\ \E p \in menu :
       /\ tasks' = Append(tasks, NewTask(p))
       /\ routing' = [routing EXCEPT ![p.qos] = @ + 1]
  /\ UNCHANGED <<onceVars, connVars, closeVars, closerVars, writerVars, readerVars,
                 pingerVars, pong, callVars, opVars, subscriptions, aliases>>

\* r.RLock(); m := PublishFromPacketPublish(pb)
RouteRLock(k) ==
  /\ tasks[k].pc = "RLock"
  /\ RouteStep(k, [tasks[k] EXCEPT !.pc = "alias"])
  /\ UNCHANGED <<routing, aliases>>

\* if pb.Properties.TopicAlias != nil { if pb.Topic != "" { register } }
\* else { topic = m.Topic }
RouteAlias(k) ==
  LET t == tasks[k] IN
  /\ t.pc = "alias"
  /\ IF t.pb.TopicAlias = Nil
       THEN /\ RouteStep(k, [t EXCEPT !.pc = "range", !.topic = t.pb.Topic])
            /\ UNCHANGED aliases
       ELSE /\ RouteStep(k, [t EXCEPT !.pc = "lookup"])
            /\ aliases' =
                 IF t.pb.Topic # <<>>
                   THEN [a \in DOMAIN aliases \cup {t.pb.TopicAlias[1]} |->
                           IF a = t.pb.TopicAlias[1] THEN t.pb.Topic ELSE aliases[a]]
                   ELSE aliases
  /\ UNCHANGED routing

\* The goroutine is at r.aliases[alias] = pb.Topic, at the lookup in r.aliases.
AtAliasWrite(k) ==
  tasks[k].pc = "alias" /\ tasks[k].pb.TopicAlias # Nil /\ tasks[k].pb.Topic # <<>>
AtAliasRead(k) == tasks[k].pc = "lookup"

\* Two goroutines under the read lock are at the alias map, one of them to
\* write it: besides the two accesses in either order, the Go runtime may
\* stop the process with "concurrent map writes" or "concurrent map read and
\* map write".
RouteRace(j, k) ==
  /\ j # k
  /\ AtAliasWrite(j)
  /\ AtAliasWrite(k) \/ AtAliasRead(k)
  /\ tasks' = [tasks EXCEPT ![j].pc = "fatal", ![k].pc = "fatal"]
  /\ UNCHANGED <<onceVars, connVars, closeVars, closerVars, writerVars, readerVars,
                 pingerVars, pong, callVars, opVars, routing, subscriptions, aliases>>

\* if t, ok := r.aliases[*pb.Properties.TopicAlias]; ok { topic = t }
RouteLookup(k) ==
  LET t == tasks[k] IN
  /\ t.pc = "lookup"
  /\ RouteStep(k, [t EXCEPT !.pc = "range",
                            !.topic = IF t.pb.TopicAlias[1] \in DOMAIN aliases
                                        THEN aliases[t.pb.TopicAlias[1]]
                                        ELSE <<>>])
  /\ UNCHANGED <<routing, aliases>>

\* for route, handlers := range r.subscriptions { if match(route, topic) {
\* for _, handler := range handlers { handler(m, ack) } } }
RouteRange(k) ==
  LET t == tasks[k] IN
  /\ t.pc = "range"
  /\ RouteStep(k, [t EXCEPT !.pc = "handlers",
                            !.invoked = [r \in DOMAIN subscriptions |->
                                           IF match(r, t.topic) THEN subscriptions[r] ELSE 0]])
  /\ UNCHANGED <<routing, aliases>>

\* The handlers have returned: r.RUnlock(), and the goroutine ends.
RouteDone(k) ==
  LET t == tasks[k] IN
  /\ t.pc = "handlers"
  /\ RouteStep(k, [t EXCEPT !.pc = "done"])
  /\ routing' = [routing EXCEPT ![t.pb.qos] = @ - 1]
  /\ UNCHANGED aliases

\* ---------------------------------------------------------------- MIDs
\* The MID service: Request registers a context under the lowest free packet
\* id of 1..MidMax and returns the id, or 0 when none is free (the lowest free
\* id is at most one more than the number of ids in use); Get looks an id up.
MidMax == 65535

MidsRequest ==
  LET n == Cardinality(DOMAIN mids) IN
    IF n >= MidMax
      THEN 0
      ELSE CHOOSE i \in 1..(n + 1) : i \notin DOMAIN mids /\ \A j \in 1..(i - 1) : j \in DOMAIN mids

MidsGet(i) == IF i \in DOMAIN mids THEN Ptr(mids[i]) ELSE Nil

\* ---------------------------------------------------------------- reader
\* recv, err := packets.ReadPacket(c.Conn) returns a packet of the server's.
ReaderRead(menu, budget) ==
  /\ rpc = "read"
  /\ connCloses = 0
  /\ nrecv < budget
  /\ \E p \in menu : recv' = p
  /\ nrecv' = nrecv + 1
  /\ rpc' = "handle"
  /\ UNCHANGED <<onceVars, connVars, closeVars, closerVars, writerVars, rctx,
                 readerDone, pingerVars, pong, callVars, opVars, routing, routerVars>>

\* ReadPacket returns io.EOF: close(), return, close(c.readerDone).
ReaderEOF ==
  /\ rpc = "read"
  /\ connCloses = 0
  /\ close
  /\ rpc' = "stopped"
  /\ readerDone' = TRUE
  /\ UNCHANGED <<onceVars, connVars, closerVars, writerVars, recv, rctx, nrecv,
                 pingerVars, pong, callVars, opVars, routing, routerVars>>

\* ReadPacket returns another error (a broken or a closed stream): fail, return.
ReaderError ==
  /\ rpc = "read"
  /\ fail
  /\ rpc' = "stopped"
  /\ readerDone' = TRUE
  /\ UNCHANGED <<onceVars, connVars, closerVars, writerVars, recv, rctx, nrecv,
                 pingerVars, pong, callVars, opVars, routing, routerVars>>

ReaderNext ==
  /\ rpc' = "read"
  /\ recv' = NoPkt
  /\ rctx' = Nil

\* case packets.PINGRESP: select { case <-c.pingerDone: case c.pong <- struct{}{}: }
ReaderPingresp ==
  /\ rpc = "handle"
  /\ recv.type = "PINGRESP"
  /\ \/ pingerDone /\ pong' = pong
     \/ pong = 0 /\ pong' = 1
  /\ ReaderNext
  /\ UNCHANGED <<onceVars, connVars, closeVars, closerVars, writerVars, readerDone,
                 nrecv, pingerVars, callVars, opVars, routing, routerVars>>

\* case packets.CONNACK: if c.caCtx != nil { c.caCtx.Return <- cap }
ReaderConnack ==
  /\ rpc = "handle"
  /\ recv.type = "CONNACK"
  /\ IF caCtx = Nil
       THEN UNCHANGED caCtx
       ELSE /\ Len(caCtx[1]) < 1
            /\ caCtx' = Ptr(Append(caCtx[1], recv))
  /\ ReaderNext
  /\ UNCHANGED <<onceVars, ca, cerr, keepalive, serverProps, clientProps,
                 serverInflight, clientInflight, closeVars, closerVars, writerVars,
                 readerDone, nrecv, pingerVars, pong, callVars, opVars, routing, routerVars>>

AckTypes == {"PUBACK", "PUBCOMP", "SUBACK", "UNSUBACK"}

\* The session is configured with an AuthHandler.
AuthHandlerSet == TRUE

\* What the reader does with the packet before any send or write:
\* the context it looks up and where it goes next.
ReaderLookup ==
  /\ rpc = "handle"
  /\ recv.type \in AckTypes \cup {"PUBREC", "PUBREL", "AUTH", "DISCONNECT", "PUBLISH"}
  /\ CASE recv.type \in AckTypes ->
            \* if cpCtx := c.MIDs.Get(recv.PacketID()); cpCtx != nil { cpCtx.Return <- *recv }
            /\ rctx' = MidsGet(recv.id)
            /\ rpc' = IF rctx' = Nil THEN "read" ELSE "deliver"
            /\ UNCHANGED <<routing, tasks>>
       [] recv.type = "PUBREC" ->
            /\ rctx' = MidsGet(recv.id)
            /\ rpc' = IF rctx' # Nil /\ recv.rc >= FailureReason THEN "deliver" ELSE "write"
            /\ UNCHANGED <<routing, tasks>>
       [] recv.type = "PUBREL" ->
            \* if pr.ReasonCode < 0x80 { continue } else { write PUBCOMP }
            /\ rctx' = Nil
            /\ rpc' = IF recv.rc < FailureReason THEN "read" ELSE "write"
            /\ UNCHANGED <<routing, tasks>>
       [] recv.type = "AUTH" ->
            /\ rctx' = IF recv.rc = 0 THEN raCtx ELSE Nil
            /\ rpc' = IF recv.rc = 0
                        THEN (IF raCtx # Nil THEN "deliver" ELSE "read")
                        ELSE (IF recv.rc = 24 /\ AuthHandlerSet THEN "write" ELSE "read")
            /\ UNCHANGED <<routing, tasks>>
       [] recv.type = "DISCONNECT" ->
            /\ rctx' = raCtx
            /\ rpc' = "deliver"
            /\ UNCHANGED <<routing, tasks>>
       [] recv.type = "PUBLISH" ->
            \* go c.Router.Route(pb); QoS 1 and 2 are acknowledged
            /\ rctx' = Nil
            /\ routing' = [routing EXCEPT ![recv.qos] = @ + 1]
            /\ tasks' = Append(tasks, NewTask(recv))
            /\ rpc' = IF recv.qos \in {1, 2} THEN "write" ELSE "read"
  /\ recv' = IF rpc' = "read" THEN NoPkt ELSE recv
  /\ UNCHANGED <<onceVars, connVars, closeVars, closerVars, writerVars, readerDone,
                 nrecv, pingerVars, pong, callVars, opVars, subscriptions, aliases>>

\* cpCtx.Return <- *recv / raCtx.Return <- *recv: a send to a mailbox of
\* capacity one.  After a DISCONNECT the reader fails the session and returns.
ReaderDeliver ==
  /\ rpc = "deliver"
  /\ IF rctx = Nil
       THEN UNCHANGED mbox
       ELSE /\ Len(mbox[rctx[1]]) < 1
            /\ mbox' = [mbox EXCEPT ![rctx[1]] = Append(@, recv)]
  /\ IF recv.type = "DISCONNECT"
       THEN /\ fail
            /\ rpc' = "stopped"
            /\ readerDone' = TRUE
            /\ UNCHANGED <<recv, rctx>>
       ELSE /\ ReaderNext
            /\ UNCHANGED <<closeVars, readerDone>>
  /\ UNCHANGED <<onceVars, connVars, closerVars, writerVars, nrecv, pingerVars, pong,
                 callVars, op, mids, raCtx, permit, afterClose, routing, routerVars>>

\* The packet the reader writes in answer to recv.
ReaderAnswerPlain(p, ctx) ==
  CASE p.type = "PUBLISH" /\ p.qos = 1 -> Out(Reader, "PUBACK", p.id, 0)
    [] p.type = "PUBLISH" /\ p.qos = 2 -> Out(Reader, "PUBREC", p.id, 0)
    [] p.type = "PUBREC" -> Out(Reader, "PUBREL", p.id, 0)
    [] p.type = "PUBREL" -> Out(Reader, "PUBCOMP", p.id, 0)
    [] p.type = "AUTH" -> Out(Reader, "AUTH", 0, 0)
ReaderAnswer(p, ctx) ==
  CASE p.type = "PUBLISH" /\ p.qos = 1 -> Out(Reader, "PUBACK", p.id, 0)
    [] p.type = "PUBLISH" /\ p.qos = 2 -> Out(Reader, "PUBREC", p.id, 0)
    [] p.type = "PUBREC" /\ ctx = Nil -> Out(Reader, "PUBREL", p.id, 146)
    [] p.type = "PUBREC" /\ ctx # Nil -> Out(Reader, "PUBREL", p.id, 0)
    [] p.type = "PUBREL" -> Out(Reader, "PUBCOMP", p.id, 0)
    [] p.type = "AUTH" -> Out(Reader, "AUTH", 0, 0)

\* c.write(ctx, ...) in the reader, ctx the background context.  Only the
\* AUTH answer's error is looked at: fail, return.
ReaderWrite ==
  /\ rpc = "write"
  /\ \/ /\ Enqueue(ReaderAnswer(recv, rctx))
        /\ ReaderNext
        /\ UNCHANGED <<closeVars, readerDone>>
     \/ /\ ExitClosed
        /\ UNCHANGED writerVars
        /\ IF recv.type = "AUTH"
             THEN /\ fail
                  /\ rpc' = "stopped"
                  /\ readerDone' = TRUE
                  /\ UNCHANGED <<recv, rctx>>
             ELSE /\ ReaderNext
                  /\ UNCHANGED <<closeVars, readerDone>>
  /\ UNCHANGED <<onceVars, connVars, closerVars, nrecv, pingerVars, pong, callVars,
                 opVars, routing, routerVars>>

\* ---------------------------------------------------------------- pinger
\* case <-c.exit: timer.Stop(); return; close(c.pingerDone)
PingerExit ==
  /\ ppc = "select"
  /\ ExitClosed
  /\ timerDue' = Nil
  /\ ppc' = "stopped"
  /\ pingerDone' = TRUE
  /\ UNCHANGED <<onceVars, connVars, closeVars, closerVars, writerVars, readerVars,
                 lastPing, now, pong, callVars, opVars, routing, routerVars>>

\* case <-c.pong: lastPing = time.Time{}
PingerPong ==
  /\ ppc = "select"
  /\ pong > 0
  /\ pong' = pong - 1
  /\ lastPing' = Nil
  /\ UNCHANGED <<onceVars, connVars, closeVars, closerVars, writerVars, readerVars,
                 ppc, pingerDone, now, timerDue, callVars, opVars, routing, routerVars>>

\* if !lastPing.IsZero() && now.Sub(lastPing) > 2*d
PongOverdue(last, t, d) == last # Nil /\ t - last[1] > 2 * d

\* case now = <-timer.C: the timer fires at its due time or up to MaxLate
\* later; the session fails if the pong is overdue, else the pinger writes.
PingerTimer ==
  /\ ppc = "select"
  /\ timerDue # Nil
  /\ \E t \in timerDue[1]..(timerDue[1] + MaxLate) :
       /\ t <= MaxTime
       /\ now' = t
  /\ timerDue' = Nil
  /\ IF PongOverdue(lastPing, now', Interval(keepalive))
       THEN /\ fail
            /\ ppc' = "stopped"
            /\ pingerDone' = TRUE
       ELSE /\ ppc' = "write"
            /\ UNCHANGED <<closeVars, pingerDone>>
  /\ UNCHANGED <<onceVars, connVars, closerVars, writerVars, readerVars, lastPing,
                 pong, callVars, opVars, routing, routerVars>>

\* c.write(ctx, ping): on an error continue; else remember lastPing if it
\* is zero and timer.Reset(d).  Reset runs after the fire was received and
\* the PINGREQ handed to the writer, at least one instant after now: the
\* timer is due d after that.
PingerWrite ==
  /\ ppc = "write"
  /\ \/ /\ Enqueue(Out(Pinger, "PINGREQ", 0, 0))
        /\ lastPing' = IF lastPing = Nil THEN Ptr(now) ELSE lastPing
        /\ \E e \in 1..MaxResetDelay : timerDue' = Ptr(now + e + Interval(keepalive))
     \/ /\ ExitClosed
        /\ UNCHANGED <<writerVars, lastPing, timerDue>>
  /\ ppc' = "select"
  /\ UNCHANGED <<onceVars, connVars, closeVars, closerVars, readerVars, pingerDone,
                 now, pong, callVars, opVars, routing, routerVars>>

\* ---------------------------------------------------------------- operations
NeedsId(o) == o.type \in {"SUBSCRIBE", "UNSUBSCRIBE"} \/ (o.type = "PUBLISH" /\ o.qos \in {1, 2})
NeedsResponse(o) == NeedsId(o) \/ o.type = "AUTH"

\* sp.PacketID = c.MIDs.Request(cpCtx): the id, the index after it, the packet with it.
Register(p, o) ==
  LET id == MidsRequest IN
    /\ mids' = IF id = 0 THEN mids ELSE [i \in DOMAIN mids \cup {id} |-> IF i = id THEN p ELSE mids[i]]
    /\ op' = [op EXCEPT ![p] = [o EXCEPT !.id = id]]

CloseHasReturned == \E k \in CloseCallers : pc[k] = "returned"

\* A method is called when Connect has returned: Authenticate takes c.raCtx or
\* is refused, Subscribe and Unsubscribe register their context, Publish with
\* QoS 1 or 2 goes on to the server-inflight gate, the others to write().
\* What a request asks of the server: a Subscribe's topics with a wildcard
\* or a $share prefix and its subscription identifier, a Publish's retain
\* flag and topic alias.  A request's props point to [Flags, TopicAlias].
Asks(flags, alias) == Ptr([Flags |-> flags, TopicAlias |-> alias])
Flags(o) == IF o.props = Nil THEN {} ELSE o.props[1].Flags
TopicAlias(o) == IF o.props = Nil THEN Nil ELSE o.props[1].TopicAlias

\* The checks of Subscribe and Publish against the server's capabilities:
\* the error of the first that fails, "nil" when none does.
Preflight(sp, o) ==
  CASE o.type = "SUBSCRIBE" ->
         IF ~sp.WildcardSubAvailable /\ "wildcard" \in Flags(o)
           THEN "server does not support wildcards"
         ELSE IF ~sp.SubIDAvailable /\ "subid" \in Flags(o)
           THEN "server does not support subID"
         ELSE IF ~sp.SharedSubAvailable /\ "share" \in Flags(o)
           THEN "server does not support shared subscriptions"
         ELSE "nil"
    [] o.type = "PUBLISH" ->
         IF o.qos > sp.MaximumQoS
           THEN "server maximum QoS"
         ELSE IF /\ TopicAlias(o) # Nil
                 /\ sp.TopicAliasMaximum > 0
                 /\ TopicAlias(o)[1] > sp.TopicAliasMaximum
           THEN "server topic alias maximum"
         ELSE IF ~sp.RetainAvailable /\ "retain" \in Flags(o)
           THEN "server does not support retained messages"
         ELSE "nil"
    [] OTHER -> "nil"

PreflightErrors ==
  {"server does not support wildcards", "server does not support subID",
   "server does not support shared subscriptions", "server maximum QoS",
   "server topic alias maximum", "server does not support retained messages"}

\* A request that fails a check returns the error.
OpRejectLate(p, o, e) ==
  /\ Returned(p, Result(Nil, e))
  /\ Register(p, o)
  /\ UNCHANGED raCtx
OpReject(p, o, e) ==
  /\ Returned(p, Result(Nil, e))
  /\ op' = [op EXCEPT ![p] = o]
  /\ UNCHANGED <<raCtx, mids>>

OpCall(p, o) ==
  /\ pc[p] = "idle"
  /\ Connected
  /\ CASE Preflight(serverProps, o) # "nil" ->
            OpReject(p, o, Preflight(serverProps, o))
       [] o.type = "AUTH" ->
            IF raCtx # Nil
              THEN /\ Returned(p, Result(Nil, "previous auth is still in progress"))
                   /\ op' = [op EXCEPT ![p] = o]
                   /\ UNCHANGED <<raCtx, mids>>
              ELSE /\ raCtx' = Ptr(p)
                   /\ pc' = [pc EXCEPT ![p] = "write"]
                   /\ op' = [op EXCEPT ![p] = o]
                   /\ UNCHANGED <<res, mids>>
       [] o.type \in {"SUBSCRIBE", "UNSUBSCRIBE"} ->
            /\ Register(p, o)
            /\ pc' = [pc EXCEPT ![p] = "write"]
            /\ UNCHANGED <<res, raCtx>>
       [] o.type = "PUBLISH" /\ o.qos \in {1, 2} ->
            /\ pc' = [pc EXCEPT ![p] = "acquire"]
            /\ op' = [op EXCEPT ![p] = o]
            /\ UNCHANGED <<res, raCtx, mids>>
       [] OTHER ->
            /\ pc' = [pc EXCEPT ![p] = "write"]
            /\ op' = [op EXCEPT ![p] = o]
            /\ UNCHANGED <<res, raCtx, mids>>
  /\ afterClose' = [afterClose EXCEPT ![p] = CloseHasReturned]
  /\ UNCHANGED <<onceVars, connVars, closeVars, closerVars, writerVars, readerVars,
                 pingerVars, pong, mbox, permit, routing, routerVars>>

\* semaphore.Weighted: Acquire(ctx, 1) takes a permit when one is free, and
\* returns ctx.Err() when it had to wait and ctx ended; Release(1) gives one
\* back.  pubCtx ends when the caller's context ends or PacketTimeout elapses.
CanAcquire(sem) == sem.cur < sem.size
Acquired(sem) == [sem EXCEPT !.cur = @ + 1]
Released(sem) == [sem EXCEPT !.cur = @ - 1]

\* c.serverInflight.Acquire(pubCtx, 1), then cpCtx and c.MIDs.Request(cpCtx).
OpAcquire(p) ==
  /\ pc[p] = "acquire"
  /\ serverInflight # Nil
  /\ \/ /\ CanAcquire(serverInflight[1])
        /\ serverInflight' = Ptr(Acquired(serverInflight[1]))
        /\ permit' = [permit EXCEPT ![p] = "held"]
        /\ Register(p, op[p])
        /\ pc' = [pc EXCEPT ![p] = "write"]
        /\ UNCHANGED res
     \/ /\ ~CanAcquire(serverInflight[1])
        /\ \/ \E e \in CtxErrors : Returned(p, ByCtx(e))
           \/ Returned(p, Result(Nil, "DeadlineExceeded"))
        /\ UNCHANGED <<serverInflight, permit, op, mids>>
  /\ UNCHANGED <<onceVars, ca, cerr, caCtx, keepalive, serverProps, clientProps,
                 clientInflight, closeVars, closerVars, writerVars, readerVars,
                 pingerVars, pong, mbox, raCtx, afterClose, routing, routerVars>>

\* c.serverInflight is nil when Connect failed: Acquire dereferences it.
OpAcquireNil(p) ==
  /\ pc[p] = "acquire"
  /\ serverInflight = Nil
  /\ once' = "panicked"
  /\ pc' = [pc EXCEPT ![p] = "panicked"]
  /\ UNCHANGED <<bodyRuns, connVars, closeVars, closerVars, writerVars, readerVars,
                 pingerVars, pong, res, opVars, routing, routerVars>>

\* Authenticate's deferred function: c.raCtx = nil.
OpDeferNothing(p) == UNCHANGED raCtx
OpDefer(p) == IF op[p].type = "AUTH" THEN raCtx' = Nil ELSE UNCHANGED raCtx

\* c.write(ctx, packet) in a method: a failed write returns its error.
OpWrite(p) ==
  /\ pc[p] = "write"
  /\ \/ /\ Enqueue(Out(p, op[p].type, op[p].id, 0))
        /\ IF NeedsResponse(op[p])
             THEN /\ pc' = [pc EXCEPT ![p] = "wait"]
                  /\ UNCHANGED <<res, raCtx>>
             ELSE /\ Returned(p, Result(Nil, "nil"))
                  /\ UNCHANGED raCtx
     \/ /\ ExitClosed
        /\ Returned(p, Result(Nil, "ErrClosed"))
        /\ OpDefer(p)
        /\ UNCHANGED writerVars
     \/ /\ \E e \in CtxErrors : Returned(p, ByCtx(e))
        /\ OpDefer(p)
        /\ UNCHANGED writerVars
  /\ UNCHANGED <<onceVars, connVars, closeVars, closerVars, readerVars, pingerVars,
                 pong, op, mids, mbox, permit, afterClose, routing, routerVars>>

\* What a method returns for the packet it took from its mailbox; rp is the
\* zero packet when its select left by a cancelled context.
Mismatch == "unexpected response"
Outcome(o, rp) ==
  CASE o.type = "AUTH" ->
         IF rp.type \in {"AUTH", "DISCONNECT"} THEN Result(Ptr(rp), "nil") ELSE Result(Nil, Mismatch)
    [] o.type = "SUBSCRIBE" ->
         IF rp.type # "SUBACK" THEN Result(Nil, Mismatch)
         ELSE IF rp.rc >= FailureReason THEN Result(Ptr(rp), "failed to subscribe")
         ELSE Result(Ptr(rp), "nil")
    [] o.type = "UNSUBSCRIBE" ->
         IF rp.type # "UNSUBACK" THEN Result(Nil, Mismatch)
         ELSE IF rp.rc >= FailureReason THEN Result(Ptr(rp), "failed to unsubscribe")
         ELSE Result(Ptr(rp), "nil")
    [] o.type = "PUBLISH" /\ o.qos = 1 ->
         IF rp.type # "PUBACK" THEN Result(Nil, Mismatch)
         ELSE IF rp.rc >= FailureReason THEN Result(Ptr(rp), "error publishing")
         ELSE Result(Ptr(rp), "nil")
    [] o.type = "PUBLISH" /\ o.qos = 2 ->
         IF rp.type \in {"PUBCOMP", "PUBREC"} THEN Result(Ptr(rp), "nil") ELSE Result(Nil, Mismatch)

\* c.serverInflight.Release(1) is reached for these responses only.
ReleasesAny(o, rp) == o.type = "PUBLISH"
Releases(o, rp) ==
  /\ o.type = "PUBLISH"
  /\ \/ o.qos = 1 /\ rp.type = "PUBACK"
     \/ o.qos = 2 /\ rp.type \in {"PUBCOMP", "PUBREC"}

\* The method's select has left with rp: the rest of the method.  byCtx
\* tells that it left because the caller's context was cancelled.
OpFinish(p, rp, byCtx) ==
  /\ Returned(p, [Outcome(op[p], rp) EXCEPT !.ctx = byCtx])
  /\ IF Releases(op[p], rp)
       THEN /\ serverInflight' = Ptr(Released(serverInflight[1]))
            /\ permit' = [permit EXCEPT ![p] = "released"]
       ELSE UNCHANGED <<serverInflight, permit>>
  /\ OpDefer(p)

\* Subscribe, Unsubscribe and Publish wait on a context with the deadline
\* PacketTimeout; Authenticate waits on the context of its caller.
HasPacketTimeout(o) == o.type # "AUTH"

\* What ends a method's wait for its response: the select on the context's
\* Done() and on the mailbox.  A context that ended by a deadline returns
\* DeadlineExceeded; one that was cancelled falls out of the select.
WaitEnds(p) ==
  \/ /\ mbox[p] # <<>>
     /\ mbox' = [mbox EXCEPT ![p] = Tail(@)]
     /\ OpFinish(p, Head(mbox[p]), FALSE)
  \/ /\ HasPacketTimeout(op[p])
     /\ Returned(p, Result(Nil, "DeadlineExceeded"))
     /\ OpDefer(p)
     /\ UNCHANGED <<mbox, serverInflight, permit>>
  \/ /\ Returned(p, ByCtx("DeadlineExceeded"))
     /\ OpDefer(p)
     /\ UNCHANGED <<mbox, serverInflight, permit>>
  \/ /\ OpFinish(p, NoPkt, TRUE)
     /\ UNCHANGED mbox

OpWait(p) ==
  /\ pc[p] = "wait"
  /\ WaitEnds(p)
  /\ UNCHANGED <<onceVars, ca, cerr, caCtx, keepalive, serverProps, clientProps,
                 clientInflight, closeVars, closerVars, writerVars, readerVars,
                 pingerVars, pong, op, mids, afterClose, routing, routerVars>>

\* ---------------------------------------------------------------- the session's life cycle
\* The CONNECT packets the callers of Connect pass and the packets the server sends.
LifeConnects == {ConnectPkt(1, Nil)}
ConnackOk == Pkt("CONNACK", 0, 0, 0, Nil)
ConnackRefused == Pkt("CONNACK", 0, 128, 0, Nil)
\* A CONNACK whose ServerKeepAlive is 0: the pinger's interval is 0.
ConnackNoInterval == Pkt("CONNACK", 0, 0, 0, Ptr(Props(Nil, Ptr(0))))
LifePackets ==
  {ConnackOk, ConnackRefused, ConnackNoInterval, Packet("PINGRESP"), Packet("DISCONNECT")}

\* One goroutine calls Connect; others call Close and Shutdown; the server
\* answers, pongs, disconnects, or the stream breaks; the keepalive timer runs.
Connector == <<"Connect", 1>>

Next ==
  \/ ConnectCall(Connector)
  \/ \E cp \in LifeConnects : ConnectBegin(Connector, cp)
  \/ ConnectCaCtx(Connector)
  \/ ConnectWrite(Connector)
  \/ ConnectWait(Connector)
  \/ \E k \in CloseCallers \cup ShutdownCallers : MethodBeforeConnect(k)
  \/ \E k \in CloseCallers : CloseCall(k)
  \/ \E k \in CloseCallers \cup ShutdownCallers : CloseReturn(k)
  \/ \E s \in ShutdownCallers : ShutdownWrite(s)
  \/ \E s \in ShutdownCallers : ShutdownWait(s)
  \/ WriterExit
  \/ WriterWrite
  \/ WriterError
  \/ ReaderRead(LifePackets, MaxRecv)
  \/ ReaderEOF
  \/ ReaderError
  \/ ReaderPingresp
  \/ ReaderConnack
  \/ ReaderLookup
  \/ ReaderDeliver
  \/ PingerExit
  \/ PingerPong
  \/ PingerTimer
  \/ PingerWrite
  \/ \E i \in DOMAIN closer : CloserExit(i)
  \/ \E i \in DOMAIN closer : CloserWriter(i)
  \/ \E i \in DOMAIN closer : CloserPinger(i)
  \/ \E i \in DOMAIN closer : CloserReader(i)
  \/ \E i \in DOMAIN closer : CloserOnClose(i)

Spec == Init /\ [][Next]_vars

\* Several goroutines call Connect at once, and one calls Close afterwards;
\* the keepalive timer does not fire.
Closer1 == <<"Close", 1>>

NextConnect ==
  \/ \E c \in ConnectCallers : ConnectCall(c)
  \/ \E c \in ConnectCallers : \E cp \in LifeConnects : ConnectBegin(c, cp)
  \/ \E c \in ConnectCallers : ConnectCaCtx(c)
  \/ \E c \in ConnectCallers : ConnectWrite(c)
  \/ \E c \in ConnectCallers : ConnectWait(c)
  \/ \E c \in ConnectCallers : ConnectMemo(c)
  \/ CloseCall(Closer1)
  \/ CloseReturn(Closer1)
  \/ WriterExit
  \/ WriterWrite
  \/ WriterError
  \/ ReaderRead(LifePackets, MaxRecv)
  \/ ReaderEOF
  \/ ReaderError
  \/ ReaderPingresp
  \/ ReaderConnack
  \/ ReaderLookup
  \/ ReaderDeliver
  \/ PingerExit
  \/ PingerPong
  \/ PingerTimer
  \/ PingerWrite
  \/ \E i \in DOMAIN closer : CloserExit(i)
  \/ \E i \in DOMAIN closer : CloserWriter(i)
  \/ \E i \in DOMAIN closer : CloserPinger(i)
  \/ \E i \in DOMAIN closer : CloserReader(i)
  \/ \E i \in DOMAIN closer : CloserOnClose(i)

SpecConnect == Init /\ [][NextConnect]_vars

\* ---------------------------------------------------------------- operations on a session
\* Callers of Subscribe, Unsubscribe, Publish, Authenticate and Disconnect on
\* a session whose server grants a ReceiveMaximum of 1, while the session
\* may fail or be closed by a caller of Close.
OpsConnects == {ConnectPkt(1, Nil)}
ConnackRM(n) == Pkt("CONNACK", 0, 0, 0, Ptr(Props(Ptr(n), Nil)))
OpsMenu ==
  {Packet("SUBSCRIBE"), Packet("UNSUBSCRIBE"), Packet("AUTH"), Packet("DISCONNECT")}
    \cup {Pkt("PUBLISH", 0, 0, q, Nil) : q \in 0..2}
OpsPackets ==
  {ConnackRM(1), Packet("AUTH"), Packet("DISCONNECT")}
    \cup {Pkt(t, 1, 0, 0, Nil) : t \in AckTypes}
Callers == {<<"Op", i>> : i \in 1..NCallers}

NextOps ==
  \/ ConnectCall(Connector)
  \/ \E cp \in OpsConnects : ConnectBegin(Connector, cp)
  \/ ConnectCaCtx(Connector)
  \/ ConnectWrite(Connector)
  \/ ConnectWait(Connector)
  \/ CloseCall(Closer1)
  \/ CloseReturn(Closer1)
  \/ \E p \in Callers : \E o \in OpsMenu : OpCall(p, o)
  \/ \E p \in Callers : OpAcquire(p)
  \/ \E p \in Callers : OpAcquireNil(p)
  \/ \E p \in Callers : OpWrite(p)
  \/ \E p \in Callers : OpWait(p)
  \/ WriterExit
  \/ WriterWrite
  \/ WriterError
  \/ ReaderRead(OpsPackets, MaxRecv)
  \/ ReaderEOF
  \/ ReaderError
  \/ ReaderConnack
  \/ ReaderLookup
  \/ ReaderDeliver
  \/ PingerExit
  \/ PingerTimer
  \/ PingerWrite
  \/ \E i \in DOMAIN closer : CloserExit(i)
  \/ \E i \in DOMAIN closer : CloserWriter(i)
  \/ \E i \in DOMAIN closer : CloserPinger(i)
  \/ \E i \in DOMAIN closer : CloserReader(i)
  \/ \E i \in DOMAIN closer : CloserOnClose(i)

SpecOps == Init /\ [][NextOps]_vars

\* ---------------------------------------------------------------- the server-inflight gate
\* Callers of Publish with QoS 1 and 2 on a session whose server grants a
\* ReceiveMaximum of 1 or 2 and acknowledges; a caller of Close ends the session.
FlowConnects == {ConnectPkt(1, Ptr(Props(Ptr(2), Nil)))}
FlowMenu == {Pkt("PUBLISH", 0, 0, q, Nil) : q \in {1, 2}}
FlowPackets ==
  {ConnackRM(1), ConnackOk, Pkt("PUBACK", 1, 0, 0, Nil), Pkt("PUBCOMP", 1, 0, 0, Nil),
   Pkt("PUBREC", 1, 0, 0, Nil), Pkt("PUBREC", 1, 128, 0, Nil)}

NextFlow ==
  \/ ConnectCall(Connector)
  \/ \E cp \in FlowConnects : ConnectBegin(Connector, cp)
  \/ ConnectCaCtx(Connector)
  \/ ConnectWrite(Connector)
  \/ ConnectWait(Connector)
  \/ CloseCall(Closer1)
  \/ CloseReturn(Closer1)
  \/ \E p \in OpCallers : \E o \in FlowMenu : OpCall(p, o)
  \/ \E p \in OpCallers : OpAcquire(p)
  \/ \E p \in OpCallers : OpAcquireNil(p)
  \/ \E p \in OpCallers : OpWrite(p)
  \/ \E p \in OpCallers : OpWait(p)
  \/ WriterExit
  \/ WriterWrite
  \/ ReaderRead(FlowPackets, MaxRecv)
  \/ ReaderError
  \/ ReaderConnack
  \/ ReaderLookup
  \/ ReaderDeliver
  \/ ReaderWrite
  \/ PingerExit
  \/ \E i \in DOMAIN closer : CloserExit(i)
  \/ \E i \in DOMAIN closer : CloserWriter(i)
  \/ \E i \in DOMAIN closer : CloserPinger(i)
  \/ \E i \in DOMAIN closer : CloserReader(i)
  \/ \E i \in DOMAIN closer : CloserOnClose(i)

SpecFlow == Init /\ [][NextFlow]_vars

\* ---------------------------------------------------------------- inbound publications
\* The server sends PUBLISH packets of every QoS to a client that announced
\* a ReceiveMaximum of 1; each is routed in a goroutine of its own.
MaxInbound == 3      \* packets the server sends in this scenario
InboundConnects == {ConnectPkt(1, Ptr(Props(Ptr(1), Nil)))}
InboundPackets == {ConnackOk} \cup {Pkt("PUBLISH", 1, 0, q, Nil) : q \in 0..2}

NextInbound ==
  \/ ConnectCall(Connector)
  \/ \E cp \in InboundConnects : ConnectBegin(Connector, cp)
  \/ ConnectCaCtx(Connector)
  \/ ConnectWrite(Connector)
  \/ ConnectWait(Connector)
  \/ WriterExit
  \/ WriterWrite
  \/ WriterError
  \/ ReaderRead(InboundPackets, MaxInbound)
  \/ ReaderEOF
  \/ ReaderError
  \/ ReaderConnack
  \/ ReaderLookup
  \/ ReaderWrite
  \/ \E k \in DOMAIN tasks : RouteRLock(k)
  \/ \E k \in DOMAIN tasks : RouteAlias(k)
  \/ \E k \in DOMAIN tasks : RouteRange(k)
  \/ \E k \in DOMAIN tasks : RouteDone(k)
  \/ PingerExit
  \/ \E i \in DOMAIN closer : CloserExit(i)
  \/ \E i \in DOMAIN closer : CloserWriter(i)
  \/ \E i \in DOMAIN closer : CloserPinger(i)
  \/ \E i \in DOMAIN closer : CloserReader(i)
  \/ \E i \in DOMAIN closer : CloserOnClose(i)

SpecInbound == Init /\ [][NextInbound]_vars

\* SpecConnect with every enabled step eventually taken: goroutines are
\* scheduled, deadlines fire, the server and the stream act.
FairConnect == SpecConnect /\ WF_vars(NextConnect)

\* ================================================================ properties

\* ---------------------------------------------------------------- C1
\* C1: whatever the number of Connect calls, the connect body runs once; a
\* call that has returned returned after that run had finished, and every
\* call returns the one memoized (Connack, error) pair.
ConnectRunsOnce ==
  /\ bodyRuns <= 1
  /\ \A c \in ConnectCallers :
       pc[c] = "returned" =>
         /\ bodyRuns = 1
         /\ once \notin {"idle", "running"}
         /\ res[c] = Result(ca, cerr)
  /\ \A c, d \in ConnectCallers :
       pc[c] = "returned" /\ pc[d] = "returned" => res[c] = res[d]

\* Every Connect caller has returned from a handshake that succeeded.
ConnectRunsOnceWitness ==
  /\ \A c \in ConnectCallers : pc[c] = "returned"
  /\ cerr = "nil"
  /\ ca # Nil

\* ---------------------------------------------------------------- C2
\* C2: once Connect has failed, the teardown it started completes: Done()
\* is signalled eventually (and so a Close() that waits for it returns).
FailedConnectTearsDown == (once = "done" /\ cerr # "nil") ~> DoneClosed

\* ---------------------------------------------------------------- C3
\* C3: when the session has failed and the teardown has closed the exit
\* channel, a Subscribe, Unsubscribe, Publish or Authenticate call that waits
\* for a response it has not received is unblocked: it can return at once,
\* without its deadline, and returns ErrClosed.
WaitersUnblockedByTeardown ==
  \A p \in Callers :
    ( /\ pc[p] = "wait"
      /\ mbox[p] = <<>>
      /\ cerr = "nil"
      /\ pc[Closer1] = "idle"
      /\ ExitClosed )
    => ENABLED (OpWait(p) /\ res'[p] = Result(Nil, "ErrClosed"))

\* ---------------------------------------------------------------- C4
\* C4: when a Close() call has returned the session is closed and Done() is
\* signalled; closed never goes back to alive and Done() stays signalled.
ClosedForGood ==
  /\ [](\A k \in CloseCallers : pc[k] = "returned" => ~IsAlive /\ DoneClosed)
  /\ [][(~IsAlive => ~IsAlive') /\ (DoneClosed => DoneClosed')]_vars

\* A Close() call has returned.
ClosedForGoodWitness ==
  /\ pc[Closer1] = "returned"
  /\ cerr = "nil"

\* ---------------------------------------------------------------- C5
\* C5: a method that was called after a Close() had returned, and that did
\* not return because the context of its caller had ended or because an
\* authentication was in progress, has returned ErrClosed and has written
\* no packet.
AfterCloseErrClosed ==
  \A p \in OpCallers :
    ( /\ pc[p] = "returned"
      /\ afterClose[p]
      /\ ~res[p].ctx
      /\ res[p].err # "previous auth is still in progress" )
    => /\ res[p].err = "ErrClosed"
       /\ \A o \in sent : o.src # p

\* ---------------------------------------------------------------- C6
\* C6: whatever calls close() and however often, exactly one close goroutine
\* is started by the first call; the exit channel is closed at most once, the
\* connection is closed at most once and after it, and the done channel is
\* closed at most once and after both.
CloseSequenceOnce ==
  /\ Len(closer) = (IF closed THEN 1 ELSE 0)
  /\ exit <= 1
  /\ connCloses <= exit
  /\ done <= connCloses

\* Two Close() calls, a Shutdown() call and the reader all called close(),
\* and the close sequence has run to its end.
CloseSequenceOnceWitness ==
  /\ \A k \in CloseCallers \cup ShutdownCallers : pc[k] = "returned"
  /\ rpc = "stopped"
  /\ closer = <<"finished">>
  /\ exit = 1 /\ connCloses = 1 /\ done = 1

\* ---------------------------------------------------------------- C7
\* C7: OnClose is called at most once; only after a handshake that succeeded
\* and after Done() was signalled; never when Connect failed; and it has
\* been called when the close goroutine of a connected session has finished.
OnCloseOnce ==
  /\ onCloseCalls <= 1
  /\ onCloseCalls > 0 => cerr = "nil" /\ ca # Nil /\ DoneClosed
  /\ cerr # "nil" => onCloseCalls = 0
  /\ \A i \in DOMAIN closer :
       closer[i] = "finished" /\ cerr = "nil" => onCloseCalls = 1

\* OnClose has been called.
OnCloseOnceWitness ==
  /\ onCloseCalls = 1
  /\ closer = <<"finished">>

\* ---------------------------------------------------------------- C8
\* C8: when Shutdown() has returned, Done() is signalled and the session is
\* not alive, whichever way the write of DISCONNECT and the wait ended.
ShutdownEndsClosed ==
  \A s \in ShutdownCallers : pc[s] = "returned" => DoneClosed /\ ~IsAlive

\* Shutdown() has returned after the write of DISCONNECT failed.
ShutdownEndsClosedWitness ==
  \E s \in ShutdownCallers :
    /\ pc[s] = "returned"
    /\ cerr = "nil"
    /\ res[s].err = "ErrClosed"

\* ---------------------------------------------------------------- C9
\* C9: the Publish calls of QoS 1 and 2 that hold a permit of the
\* server-inflight gate are never more than the server's ReceiveMaximum.
Holders == {p \in OpCallers : permit[p] = "held"}
InflightWithinReceiveMaximum ==
  /\ Cardinality(Holders) <= serverProps.ReceiveMaximum
  /\ serverInflight # Nil =>
       /\ serverInflight[1].size = serverProps.ReceiveMaximum
       /\ serverInflight[1].cur = Cardinality(Holders)

\* The server announced ReceiveMaximum 1: one Publish holds the permit and
\* has written its packet, another waits in Acquire.
InflightWithinReceiveMaximumWitness ==
  /\ serverProps.ReceiveMaximum = 1
  /\ \E p, q \in OpCallers :
       /\ permit[p] = "held"
       /\ pc[p] = "wait"
       /\ pc[q] = "acquire"

\* ---------------------------------------------------------------- C10
\* C10: the inbound PUBLISH packets of QoS 1 and 2 whose handlers run are
\* never more than the ReceiveMaximum the client sent in CONNECT.
InboundWithinReceiveMaximum ==
  routing[1] + routing[2] <= clientProps.ReceiveMaximum

\* ---------------------------------------------------------------- C11
\* C11: when a Subscribe, Unsubscribe or Publish call has returned, the
\* packet id it registered is no longer registered in the MID service.
IdsFreedOnReturn ==
  \A p \in Callers :
    pc[p] = "returned" => \A i \in DOMAIN mids : mids[i] # p

\* ---------------------------------------------------------------- reauthentication
\* Two goroutines call Authenticate; the server answers with AUTH packets
\* (success and continue-authentication) or disconnects.
AuthMenu == {Packet("AUTH")}
AuthPackets == {ConnackOk, Packet("AUTH"), Pkt("AUTH", 0, 24, 0, Nil), Packet("DISCONNECT")}

NextAuth ==
  \/ ConnectCall(Connector)
  \/ \E cp \in LifeConnects : ConnectBegin(Connector, cp)
  \/ ConnectCaCtx(Connector)
  \/ ConnectWrite(Connector)
  \/ ConnectWait(Connector)
  \/ \E p \in OpCallers : \E o \in AuthMenu : OpCall(p, o)
  \/ \E p \in OpCallers : OpWrite(p)
  \/ \E p \in OpCallers : OpWait(p)
  \/ WriterExit
  \/ WriterWrite
  \/ WriterError
  \/ ReaderRead(AuthPackets, MaxRecv)
  \/ ReaderError
  \/ ReaderConnack
  \/ ReaderLookup
  \/ ReaderDeliver
  \/ ReaderWrite
  \/ PingerExit
  \/ \E i \in DOMAIN closer : CloserExit(i)
  \/ \E i \in DOMAIN closer : CloserWriter(i)
  \/ \E i \in DOMAIN closer : CloserPinger(i)
  \/ \E i \in DOMAIN closer : CloserReader(i)
  \/ \E i \in DOMAIN closer : CloserOnClose(i)

SpecAuth == Init /\ [][NextAuth]_vars

\* ---------------------------------------------------------------- C12
\* C12: at most one Authenticate call is between its registration and its
\* return, and raCtx is set exactly then; a call made while raCtx is set
\* returns at once with "previous auth is still in progress" and writes
\* nothing; a call made while it is not set is accepted.
Authenticating == {p \in OpCallers : pc[p] \in {"write", "wait"} /\ op[p].type = "AUTH"}
OneAuthAtATime ==
  /\ [](/\ Cardinality(Authenticating) <= 1
        /\ raCtx = Nil <=> Authenticating = {}
        /\ \A p \in Authenticating : raCtx = Ptr(p)
        /\ \A p \in OpCallers :
             res[p].err = "previous auth is still in progress"
               => \A o \in sent : o.src # p)
  /\ [][\A p \in OpCallers :
          pc[p] = "idle" /\ pc'[p] # "idle" =>
            IF raCtx # Nil
              THEN /\ pc'[p] = "returned"
                   /\ res'[p].err = "previous auth is still in progress"
                   /\ UNCHANGED <<raCtx, writerVars>>
              ELSE pc'[p] = "write" /\ raCtx' = Ptr(p)]_vars

\* One call was rejected while another waited for its response, the other
\* has returned since, and nothing of the rejected one was written.
OneAuthAtATimeWitness ==
  \E p, q \in OpCallers :
    /\ res[p].err = "previous auth is still in progress"
    /\ pc[q] = "returned"
    /\ res[q].err = "nil"
    /\ raCtx = Nil

\* ---------------------------------------------------------------- C13
\* C13: a call that returned because the context of its caller had ended
\* returned that context's error, DeadlineExceeded or Canceled.
ContextErrorReturned ==
  \A p \in Callers :
    pc[p] = "returned" /\ res[p].ctx => res[p].err \in CtxErrors

\* ---------------------------------------------------------------- capabilities
\* The server restricts its capabilities in CONNACK, or leaves them as they
\* are; a goroutine calls Subscribe or Publish with a request that asks for
\* one of them, or for none.
ConnackCaps ==
  Pkt("CONNACK", 0, 0, 0,
      Ptr([Props(Nil, Nil) EXCEPT !.MaximumQoS = Ptr(1), !.TopicAliasMaximum = Ptr(1),
             !.RetainAvailable = FALSE, !.WildcardSubAvailable = FALSE,
             !.SubIDAvailable = FALSE, !.SharedSubAvailable = FALSE]))
CapsPackets ==
  {ConnackOk, ConnackCaps, Pkt("SUBACK", 1, 0, 0, Nil), Pkt("PUBACK", 1, 0, 0, Nil)}
CapsMenu ==
  {Pkt("SUBSCRIBE", 0, 0, 0, a) :
     a \in {Nil, Asks({"wildcard"}, Nil), Asks({"subid"}, Nil), Asks({"share"}, Nil)}}
  \cup {Pkt("PUBLISH", 0, 0, q, a) :
     q \in 0..2, a \in {Nil, Asks({"retain"}, Nil), Asks({}, Ptr(1)), Asks({}, Ptr(2))}}

NextCaps ==
  \/ ConnectCall(Connector)
  \/ \E cp \in LifeConnects : ConnectBegin(Connector, cp)
  \/ ConnectCaCtx(Connector)
  \/ ConnectWrite(Connector)
  \/ ConnectWait(Connector)
  \/ \E p \in Callers : \E o \in CapsMenu : OpCall(p, o)
  \/ \E p \in Callers : OpAcquire(p)
  \/ \E p \in Callers : OpAcquireNil(p)
  \/ \E p \in Callers : OpWrite(p)
  \/ \E p \in Callers : OpWait(p)
  \/ WriterExit
  \/ WriterWrite
  \/ ReaderRead(CapsPackets, MaxRecv)
  \/ ReaderError
  \/ ReaderConnack
  \/ ReaderLookup
  \/ ReaderDeliver
  \/ PingerExit
  \/ \E i \in DOMAIN closer : CloserExit(i)
  \/ \E i \in DOMAIN closer : CloserWriter(i)
  \/ \E i \in DOMAIN closer : CloserPinger(i)
  \/ \E i \in DOMAIN closer : CloserReader(i)
  \/ \E i \in DOMAIN closer : CloserOnClose(i)

SpecCaps == Init /\ [][NextCaps]_vars

\* ---------------------------------------------------------------- C14
\* C14: a Subscribe or Publish that fails a check against the server's
\* capabilities returns the error of the check in the step of its call,
\* and that step allocates no packet id, acquires no permit and enqueues
\* nothing to the writer; the call never does so afterwards.
RejectedLeavesSession ==
  /\ [](\A p \in Callers :
          res[p].err \in PreflightErrors =>
            /\ pc[p] = "returned"
            /\ permit[p] = "none"
            /\ \A i \in DOMAIN mids : mids[i] # p
            /\ \A o \in sent : o.src # p
            /\ w.src # p)
  /\ [][\A p \in Callers :
          ( /\ pc[p] = "idle"
            /\ pc'[p] # "idle"
            /\ Preflight(serverProps, op'[p]) # "nil" )
          => /\ pc'[p] = "returned"
             /\ res'[p] = Result(Nil, Preflight(serverProps, op'[p]))
             /\ UNCHANGED <<mids, serverInflight, permit, writerVars, mbox, raCtx,
                            closeVars>>]_vars

\* A Publish of QoS 1 was rejected for its topic alias.
RejectedLeavesSessionWitness ==
  \E p \in Callers :
    /\ op[p].type = "PUBLISH" /\ op[p].qos = 1
    /\ res[p].err = "server topic alias maximum"

\* ---------------------------------------------------------------- keepalive
\* The server answers CONNECT and nothing else: no PINGRESP is received.
\* The pinger starts at instant 0 with the keepalive interval of
\* LifeConnects; its timer fires when it is due and is re-armed after each
\* PINGREQ.
SilentPackets == {ConnackOk}

NextKeepalive ==
  \/ ConnectCall(Connector)
  \/ \E cp \in LifeConnects : ConnectBegin(Connector, cp)
  \/ ConnectCaCtx(Connector)
  \/ ConnectWrite(Connector)
  \/ ConnectWait(Connector)
  \/ CloseCall(Closer1)
  \/ CloseReturn(Closer1)
  \/ WriterExit
  \/ WriterWrite
  \/ WriterError
  \/ ReaderRead(SilentPackets, MaxRecv)
  \/ ReaderError
  \/ ReaderConnack
  \/ PingerExit
  \/ PingerTimer
  \/ PingerWrite
  \/ \E i \in DOMAIN closer : CloserExit(i)
  \/ \E i \in DOMAIN closer : CloserWriter(i)
  \/ \E i \in DOMAIN closer : CloserPinger(i)
  \/ \E i \in DOMAIN closer : CloserReader(i)
  \/ \E i \in DOMAIN closer : CloserOnClose(i)

SpecKeepalive == Init /\ [][NextKeepalive]_vars

\* The pinger has failed the session: it stopped at a timer fire at which
\* the pong was overdue.
PingerFailed == ppc = "stopped" /\ PongOverdue(lastPing, now, Interval(keepalive))

\* ---------------------------------------------------------------- C15
\* C15: with no PINGRESP received and a timer of the keepalive interval d,
\* the pinger fails the session at a timer fire between 2d and 3d after it
\* started.
KeepaliveFailsBetween2dAnd3d ==
  PingerFailed =>
    2 * Interval(keepalive) <= now /\ now <= 3 * Interval(keepalive)

\* ---------------------------------------------------------------- topic aliases
\* Handlers are registered for the patterns "a" and "#"; the server sends a
\* PUBLISH with the topic "a" and the topic alias 1, and PUBLISH packets with
\* an empty topic and that alias.
MaxHandlers == 1     \* handlers registered for one pattern
TopicA == <<"a">>
AliasPatterns == {TopicA, Hash}
AliasPackets == {ConnackOk, Pkt("PUBLISH", 0, 0, 0, Pub(TopicA, Ptr(1))),
                 Pkt("PUBLISH", 0, 0, 0, Pub(<<>>, Ptr(1)))}

\* A handler is registered while its pattern has fewer than n handlers.
RegisterUpTo(topic, n) ==
  /\ topic \in DOMAIN subscriptions => subscriptions[topic] < n
  /\ RegisterHandler(topic)

NextAlias ==
  \/ ConnectCall(Connector)
  \/ \E cp \in LifeConnects : ConnectBegin(Connector, cp)
  \/ ConnectCaCtx(Connector)
  \/ ConnectWrite(Connector)
  \/ ConnectWait(Connector)
  \/ WriterWrite
  \/ \E t \in AliasPatterns : RegisterUpTo(t, MaxHandlers)
  \/ ReaderRead(AliasPackets, MaxInbound)
  \/ ReaderConnack
  \/ ReaderLookup
  \/ \E k \in DOMAIN tasks : RouteRLock(k)
  \/ \E k \in DOMAIN tasks : RouteAlias(k)
  \/ \E j, k \in DOMAIN tasks : RouteRace(j, k)
  \/ \E k \in DOMAIN tasks : RouteLookup(k)
  \/ \E k \in DOMAIN tasks : RouteRange(k)
  \/ \E k \in DOMAIN tasks : RouteDone(k)
  \/ WriterExit
  \/ ReaderError
  \/ PingerExit
  \/ \E i \in DOMAIN closer : CloserExit(i)
  \/ \E i \in DOMAIN closer : CloserWriter(i)
  \/ \E i \in DOMAIN closer : CloserPinger(i)
  \/ \E i \in DOMAIN closer : CloserReader(i)
  \/ \E i \in DOMAIN closer : CloserOnClose(i)

SpecAlias == Init /\ [][NextAlias]_vars

\* ---------------------------------------------------------------- C16
\* C16: when the reader received a PUBLISH with a topic T and an alias and
\* after it a PUBLISH with an empty topic and that alias, the Route
\* goroutine of the second calls the handlers of exactly the patterns that
\* match T.
AliasResolvesToTopic ==
  \A j, k \in DOMAIN tasks :
    ( /\ j < k
      /\ tasks[j].pb.Topic # <<>>
      /\ tasks[j].pb.TopicAlias # Nil
      /\ tasks[k].pb.Topic = <<>>
      /\ tasks[k].pb.TopicAlias = tasks[j].pb.TopicAlias
      /\ tasks[k].pc \in {"handlers", "done"} )
    => \A r \in DOMAIN tasks[k].invoked :
         tasks[k].invoked[r] > 0 <=> match(r, tasks[j].pb.Topic)

\* ---------------------------------------------------------------- matching
\* A handler is registered for a topic filter of up to MaxLevels levels, or
\* for the shared subscription of a group to it; Route is called on the
\* router with a PUBLISH on a topic of up to MaxLevels levels.
MaxLevels == 3       \* levels of a filter and of a topic
MaxSubs == 1         \* patterns with a handler
MaxRoutes == 1       \* calls of Route
FilterLevels == {<<"a">>, <<"b">>, Plus, Hash}
TopicLevels == {<<"a">>, <<"b">>}
Groups == {<<"g">>}

\* The levels joined by slashes.
RECURSIVE Join(_)
Join(levels) ==
  IF Len(levels) = 1 THEN levels[1]
  ELSE levels[1] \o <<Slash>> \o Join(Tail(levels))

FilterSeqs == UNION {[1..n -> FilterLevels] : n \in 1..MaxLevels}
TopicSeqs == UNION {[1..n -> TopicLevels] : n \in 1..MaxLevels}
SharedOf(g, filter) == Share \o <<Slash>> \o g \o <<Slash>> \o filter
MatchPatterns ==
  {Join(l) : l \in FilterSeqs} \cup {SharedOf(g, Join(l)) : g \in Groups, l \in FilterSeqs}
MatchPackets == {Pkt("PUBLISH", 0, 0, 0, Pub(Join(l), Nil)) : l \in TopicSeqs}

\* A handler is registered while fewer than n patterns have one.
RegisterNew(topic, n) ==
  /\ topic \notin DOMAIN subscriptions
  /\ Cardinality(DOMAIN subscriptions) < n
  /\ RegisterHandler(topic)

NextMatch ==
  \/ \E t \in MatchPatterns : RegisterNew(t, MaxSubs)
  \/ \E t \in DOMAIN subscriptions : UnregisterHandler(t)
  \/ RouteCall(MatchPackets, MaxRoutes)
  \/ \E k \in DOMAIN tasks : RouteRLock(k)
  \/ \E k \in DOMAIN tasks : RouteAlias(k)
  \/ \E k \in DOMAIN tasks : RouteRange(k)
  \/ \E k \in DOMAIN tasks : RouteDone(k)

SpecMatch == Init /\ [][NextMatch]_vars

\* ---------------------------------------------------------------- C17
\* C17: the handlers of the shared subscription "$share/g/f" are called for
\* a publish on the topic t exactly when match(f, t) holds.
SharedMatchesAsPlain ==
  \A k \in DOMAIN tasks :
    tasks[k].pc \in {"handlers", "done"} =>
      \A g \in Groups, l \in FilterSeqs :
        SharedOf(g, Join(l)) \in DOMAIN tasks[k].invoked =>
          (tasks[k].invoked[SharedOf(g, Join(l))] > 0 <=> match(Join(l), tasks[k].pb.Topic))

\* ---------------------------------------------------------------- C18
\* The levels of the filter cover the levels of the topic: "+" stands for
\* one level, the first "#" for all the levels that remain, none included.
Covers(f, t) ==
  IF \E h \in 1..Len(f) : f[h] = Hash
    THEN LET h == CHOOSE i \in 1..Len(f) : f[i] = Hash /\ \A j \in 1..(i - 1) : f[j] # Hash
         IN  /\ Len(t) >= h - 1
             /\ \A i \in 1..(h - 1) : f[i] = Plus \/ f[i] = t[i]
    ELSE /\ Len(t) = Len(f)
         /\ \A i \in 1..Len(f) : f[i] = Plus \/ f[i] = t[i]

\* The examples: "a/+/c" and "a/x/c", "a/#" and "a/b/c/d", "a/#" and "a"
\* match; "+" and "a/b" do not.
MatchExamples ==
  /\ match(<<"a", "/", "+", "/", "c">>, <<"a", "/", "x", "/", "c">>)
  /\ match(<<"a", "/", "#">>, <<"a", "/", "b", "/", "c", "/", "d">>)
  /\ match(<<"a", "/", "#">>, <<"a">>)
  /\ ~match(<<"+">>, <<"a", "/", "b">>)

\* C18: for a filter that is not a shared subscription and a topic that is
\* not empty, match holds exactly when the filter is the topic or its
\* levels cover the topic's; the examples hold; and Route calls each
\* handler of a pattern once when match holds and not at all when it does
\* not.
MatchIsCover ==
  /\ MatchExamples
  /\ \A k \in DOMAIN tasks :
       tasks[k].pc \in {"handlers", "done"} =>
         \A t \in TopicSeqs :
           tasks[k].pb.Topic = Join(t) =>
             \A f \in FilterSeqs :
               Join(f) \in DOMAIN tasks[k].invoked =>
                 /\ match(Join(f), Join(t)) <=> (Join(f) = Join(t) \/ Covers(f, t))
                 /\ tasks[k].invoked[Join(f)] =
                      (IF Join(f) = Join(t) \/ Covers(f, t) THEN MaxHandlers ELSE 0)

\* The handler of "+/b/#" has been called for a publish on "a/b".
MatchIsCoverWitness ==
  \E k \in DOMAIN tasks :
    /\ tasks[k].pc = "done"
    /\ tasks[k].pb.Topic = <<"a", "/", "b">>
    /\ <<"+", "/", "b", "/", "#">> \in DOMAIN tasks[k].invoked
    /\ tasks[k].invoked[<<"+", "/", "b", "/", "#">>] = 1

\* ---------------------------------------------------------------- C19
\* The response that ends a Publish of the QoS: PUBACK for QoS 1, PUBCOMP
\* or PUBREC for QoS 2.
TerminalResponse(qos, type) ==
  \/ qos = 1 /\ type = "PUBACK"
  \/ qos = 2 /\ type \in {"PUBCOMP", "PUBREC"}

\* C19: a permit of the server-inflight gate is released once, by the
\* Publish that acquired it and in the step in which that Publish takes its
\* terminal response from its mailbox; the gate never has given back more
\* permits than were taken; and a Publish that has returned without such a
\* response (deadline, failed write, response of another type) still holds
\* the permit it acquired.
PermitReleasedOnTerminal ==
  /\ [](/\ serverInflight # Nil => serverInflight[1].cur >= 0
        /\ \A p \in OpCallers :
             pc[p] = "returned" =>
               /\ permit[p] = "released" <=>
                    /\ res[p].val # Nil
                    /\ TerminalResponse(op[p].qos, res[p].val[1].type)
               /\ res[p].err \in {"DeadlineExceeded", "ErrClosed", "Canceled", Mismatch}
                    => permit[p] # "released")
  /\ [][\A p \in OpCallers :
          /\ permit[p] = "released" => permit'[p] = "released"
          /\ permit[p] = "none" => permit'[p] # "released"
          /\ permit[p] = "held" =>
               /\ permit'[p] \in {"held", "released"}
               /\ permit'[p] = "released" <=>
                    /\ pc[p] = "wait" /\ pc'[p] = "returned"
                    /\ mbox[p] # <<>> /\ mbox'[p] = Tail(mbox[p])
                    /\ TerminalResponse(op[p].qos, Head(mbox[p]).type)
               /\ permit'[p] = "released" =>
                    serverInflight'[1].cur = serverInflight[1].cur - 1]_vars

\* One Publish has returned with its PUBACK and released its permit; another
\* has returned by its deadline and holds its permit still.
PermitReleasedOnTerminalWitness ==
  \E p, q \in OpCallers :
    /\ pc[p] = "returned" /\ permit[p] = "released" /\ res[p].val # Nil
    /\ res[p].val[1].type = "PUBACK"
    /\ pc[q] = "returned" /\ permit[q] = "held" /\ res[q].err = "DeadlineExceeded"
    /\ serverInflight[1].cur = 1

\* ---------------------------------------------------------------- C20
\* Reason code 0x92, packet identifier not found.
IdentifierNotFound == 146

\* A goroutine calls Publish with QoS 2; the server answers with PUBREC, of a
\* reason below or above 0x80, and PUBCOMP, in any order and also before the
\* Publish; a caller of Close ends the session.
MaxExchange == 3     \* packets the server sends
QoS2Menu == {Pkt("PUBLISH", 0, 0, 2, Nil)}
QoS2Packets ==
  {ConnackOk, Pkt("PUBCOMP", 1, 0, 0, Nil), Pkt("PUBREC", 1, 0, 0, Nil),
   Pkt("PUBREC", 1, 128, 0, Nil)}

NextQoS2 ==
  \/ ConnectCall(Connector)
  \/ \E cp \in FlowConnects : ConnectBegin(Connector, cp)
  \/ ConnectCaCtx(Connector)
  \/ ConnectWrite(Connector)
  \/ ConnectWait(Connector)
  \/ CloseCall(Closer1)
  \/ CloseReturn(Closer1)
  \/ \E p \in Callers : \E o \in QoS2Menu : OpCall(p, o)
  \/ \E p \in Callers : OpAcquire(p)
  \/ \E p \in Callers : OpAcquireNil(p)
  \/ \E p \in Callers : OpWrite(p)
  \/ \E p \in Callers : OpWait(p)
  \/ WriterExit
  \/ WriterWrite
  \/ ReaderRead(QoS2Packets, MaxExchange)
  \/ ReaderError
  \/ ReaderConnack
  \/ ReaderLookup
  \/ ReaderDeliver
  \/ ReaderWrite
  \/ PingerExit
  \/ \E i \in DOMAIN closer : CloserExit(i)
  \/ \E i \in DOMAIN closer : CloserWriter(i)
  \/ \E i \in DOMAIN closer : CloserPinger(i)
  \/ \E i \in DOMAIN closer : CloserReader(i)
  \/ \E i \in DOMAIN closer : CloserOnClose(i)

SpecQoS2 == Init /\ [][NextQoS2]_vars

\* C20: the reader answers a PUBREC of a registered packet id and a reason
\* below 0x80 by writing PUBREL with that id and delivers nothing, so that
\* the Publish goes on waiting and returns a PUBCOMP only when one with its
\* id has arrived, after the reader is done with the PUBREL; it delivers a
\* PUBREC with a reason of 0x80 or more to the Publish and writes nothing; it
\* answers a PUBREC of an unregistered id by writing PUBREL with the reason
\* 0x92.
PubrecHandled ==
  /\ [](/\ \A p \in OpCallers :
             /\ \A i \in DOMAIN mbox[p] :
                  mbox[p][i].type = "PUBREC" => mbox[p][i].rc >= FailureReason
             /\ pc[p] = "returned" /\ res[p].val # Nil /\ res[p].val[1].type = "PUBREC"
                  => res[p].val[1].rc >= FailureReason
        /\ rpc = "write" /\ recv.type = "PUBREC" => rctx = Nil \/ recv.rc < FailureReason
        /\ rpc = "deliver" /\ recv.type = "PUBREC" => rctx # Nil /\ recv.rc >= FailureReason
        /\ \A o \in sent : o.type = "PUBREL" =>
             o.src = Reader /\ o.rc \in {0, IdentifierNotFound})
  /\ [][/\ rpc = "handle" /\ recv.type = "PUBREC" /\ rpc' # "handle" =>
             /\ mbox' = mbox
             /\ UNCHANGED writerVars
             /\ rctx' = MidsGet(recv.id)
             /\ rpc' = IF MidsGet(recv.id) # Nil /\ recv.rc >= FailureReason
                         THEN "deliver" ELSE "write"
        /\ rpc = "write" /\ recv.type = "PUBREC" /\ rpc' # "write" =>
             /\ mbox' = mbox
             /\ \/ ExitClosed /\ UNCHANGED writerVars
                \/ /\ wpc' = "writing"
                   /\ w' = Out(Reader, "PUBREL", recv.id,
                               IF rctx = Nil THEN IdentifierNotFound ELSE 0)
        /\ rpc = "deliver" /\ recv.type = "PUBREC" /\ rpc' # "deliver" =>
             /\ mbox' = [mbox EXCEPT ![rctx[1]] = Append(@, recv)]
             /\ UNCHANGED writerVars
        /\ \A p \in OpCallers :
             /\ rpc = "write" /\ recv.type = "PUBREC" /\ rctx = Ptr(p)
                  /\ pc[p] = "wait" /\ mbox[p] = <<>>
                  => ~(pc'[p] = "returned" /\ res'[p].err = "nil")
             /\ pc[p] = "wait" /\ op[p].qos = 2 /\ pc'[p] = "returned" /\ res'[p].err = "nil"
                  => /\ mbox[p] # <<>>
                     /\ Head(mbox[p]).id = op[p].id
                     /\ \/ Head(mbox[p]).type = "PUBCOMP"
                        \/ Head(mbox[p]).type = "PUBREC" /\ Head(mbox[p]).rc >= FailureReason]_vars

\* A Publish of QoS 2 has returned with its PUBCOMP, and the writer has
\* written the PUBREL with its id that the reader enqueued.
PubrecHandledWitness ==
  \E p \in OpCallers :
    /\ pc[p] = "returned" /\ op[p].qos = 2 /\ res[p].err = "nil"
    /\ res[p].val # Nil /\ res[p].val[1].type = "PUBCOMP"
    /\ Out(Reader, "PUBREL", op[p].id, 0) \in sent

\* ---------------------------------------------------------------- C21
\* C21: the reader that has read a PINGRESP can always go on: with the pong
\* slot full it discards the PINGRESP, whether the pinger runs, writes or
\* has not been started.
PingrespNeverBlocks ==
  rpc = "handle" /\ recv.type = "PINGRESP" => ENABLED ReaderPingresp

\* ---------------------------------------------------------------- teardown
\* The server answers CONNECT with CONNACK and repeats it; a goroutine calls
\* Close, the stream ends or breaks, the writer fails or the keepalive runs
\* out.  Every goroutine that can take a step is scheduled.
MaxDup == 3          \* packets the server sends
DupPackets == {ConnackOk}

NextTeardown ==
  \/ ConnectCall(Connector)
  \/ \E cp \in LifeConnects : ConnectBegin(Connector, cp)
  \/ ConnectCaCtx(Connector)
  \/ ConnectWrite(Connector)
  \/ ConnectWait(Connector)
  \/ CloseCall(Closer1)
  \/ CloseReturn(Closer1)
  \/ WriterExit
  \/ WriterWrite
  \/ WriterError
  \/ ReaderRead(DupPackets, MaxDup)
  \/ ReaderEOF
  \/ ReaderError
  \/ ReaderConnack
  \/ PingerExit
  \/ PingerTimer
  \/ PingerWrite
  \/ \E i \in DOMAIN closer : CloserExit(i)
  \/ \E i \in DOMAIN closer : CloserWriter(i)
  \/ \E i \in DOMAIN closer : CloserPinger(i)
  \/ \E i \in DOMAIN closer : CloserReader(i)
  \/ \E i \in DOMAIN closer : CloserOnClose(i)

SpecTeardown == Init /\ [][NextTeardown]_vars
FairTeardown == SpecTeardown /\ WF_vars(NextTeardown)

\* ---------------------------------------------------------------- C22
\* C22: after a successful Connect, once close() has been called, by
\* whichever path, Done() is signalled eventually, whatever packets the
\* server sent before.
TeardownCompletes == (once = "done" /\ cerr = "nil" /\ closed) ~> DoneClosed

\* ---------------------------------------------------------------- C23
\* C23: while a Route goroutine is at its write of the alias table, no other
\* Route goroutine is at a write or at a read of it.
AliasWriteExcludes ==
  \A j, k \in DOMAIN tasks :
    j # k /\ AtAliasWrite(j) => ~AtAliasWrite(k) /\ ~AtAliasRead(k)

\* ---------------------------------------------------------------- C24
\* C24: a Route goroutine whose PUBLISH has an empty topic and a topic alias
\* that it did not find in the alias table calls no handler, whatever the
\* patterns with a handler are.
UnknownAliasUnrouted ==
  \A k \in DOMAIN tasks :
    ( /\ tasks[k].pc \in {"handlers", "done"}
      /\ tasks[k].pb.TopicAlias # Nil
      /\ tasks[k].pb.Topic = <<>>
      /\ tasks[k].topic = <<>> )
    => \A r \in DOMAIN tasks[k].invoked : tasks[k].invoked[r] = 0

\* ---------------------------------------------------------------- C25
\* C25: a Publish of QoS 1 or 2 never reaches the server-inflight gate when
\* the gate has not been constructed, and after a failed Connect it does
\* not panic: it returns.
GateConstructedWhenUsed ==
  \A p \in OpCallers :
    /\ pc[p] = "acquire" => serverInflight # Nil
    /\ cerr # "nil" => pc[p] # "panicked"

====
